---- MODULE Spec2Model ----
(***************************************************************************)
(* ArrayForge (Yogpod/solar): the host's component store and the           *)
(* evaluation engine of the App component (statistics aggregator and       *)
(* diagnostics engine).                                                    *)
(*                                                                         *)
(* Representation.                                                         *)
(*  - A property value is a text.  A text is a pair <<kind, n>>:           *)
(*      <<"empty", 0>>  the empty string ''                                *)
(*      <<"num", n>>    the canonical decimal text of the integer n        *)
(*      <<"sfx", n>>    the integer n followed by junk, such as '12V'      *)
(*      <<"junk", 0>>   a text with no numeric prefix, such as 'abc'       *)
(*  - A JavaScript number is an integer, or NaN.  Derived quantities that  *)
(*    involve a division are exact rationals <<numerator, denominator>>.   *)
(*    IEEE-754 rounding is modelled where the source compares a product    *)
(*    by a decimal literal (1.10, 1.20, 0.9, ...) with an entered limit.   *)
(*  - A message is [level, text]; text is [prefix, key, who, n]: the       *)
(*    level prefix, the template of the sentence, the component names      *)
(*    interpolated into it and the count interpolated into it (0 if none). *)
(***************************************************************************)
EXTENDS Integers, Sequences, FiniteSets, TLC

VARIABLES components, systemInputs, clock, stats, messages, phase

vars == <<components, systemInputs, clock, stats, messages, phase>>

----------------------------------------------------------------------------
(* Numbers and texts *)

\* NaN: a value outside every range of numbers the model enters.
NaN == -1000000000

isNaN(x) == x = NaN

Empty == <<"empty", 0>>

Junk == <<"junk", 0>>

Txt(n) == <<"num", n>>

Sfx(n) == <<"sfx", n>>

\* String(id): the canonical decimal text of a number.
String(n) == <<"num", n>>

\* parseFloat reads the longest numeric prefix; getNum turns a failure into NaN.
getNum(val) == IF val[1] \in {"num", "sfx"} THEN val[2] ELSE NaN

\* Number(text): '' converts to 0, a text with trailing junk to NaN.
Number(val) ==
  IF val[1] = "num" THEN val[2] ELSE IF val[1] = "empty" THEN 0 ELSE NaN

\* !text: only the empty string is falsy.
IsFalsyText(val) == val[1] = "empty"

Abs(x) == IF x < 0 THEN -x ELSE x

RECURSIVE GCD(_, _)
GCD(a, b) == IF b = 0 THEN a ELSE GCD(b, a % b)

\* The rational n/d in lowest terms with a positive denominator (d # 0).
Rat(n, d) ==
  LET g == GCD(Abs(n), Abs(d))
      s == IF d < 0 THEN -1 ELSE 1
  IN  <<s * (n \div g), s * (d \div g)>>

RatInt(n) == <<n, 1>>

RatMul(a, b) == Rat(a[1] * b[1], a[2] * b[2])

RatDiv(a, b) == Rat(a[1] * b[2], a[2] * b[1])

RatSub(a, b) == Rat(a[1] * b[2] - b[1] * a[2], a[2] * b[2])

RatLT(a, b) == a[1] * b[2] < b[1] * a[2]

RatGT(a, b) == RatLT(b, a)

RECURSIVE Pow2Floor(_)
\* The largest power of two that is <= n (n >= 1).
Pow2Floor(n) == IF n < 2 THEN 1 ELSE 2 * Pow2Floor(n \div 2)

\* A decimal literal of the source as the double it denotes: the decimal
\* num/den, and err5, five times the distance from the decimal to its nearest
\* double in units of 2^-53 (1.1 is stored as 1.1 + 0.8 * 2^-53).
Literal(num, den, err5) == [num |-> num, den |-> den, err5 |-> err5]

\* sign(fl(x * f) - m) for integers x and m and a literal f, where fl rounds
\* the exact product of x and the double of f to the nearest double, ties to
\* even.  Away from num*x = den*m the rounding cannot change the order; at
\* equality the product is m plus err5*x/5 units of 2^-53 and half an ulp of m
\* is Pow2Floor(|m|) units (half of that below a power of two).
DoubleMulCmp(x, f, m) ==
  LET lhs == f.num * x
      rhs == f.den * m
      off == f.err5 * x
      p   == Pow2Floor(Abs(m))
      away == (off > 0) = (m > 0)
      half5 == IF away \/ Abs(m) # p THEN 10 * p ELSE 5 * p
      sgn == IF off > 0 THEN 1 ELSE -1
  IN  IF lhs # rhs THEN (IF lhs > rhs THEN 1 ELSE -1)
      ELSE IF m = 0 \/ off = 0 THEN 0
      ELSE IF 2 * Abs(off) > half5 THEN sgn ELSE 0

\* x * f > m, as the double comparison decides it.
DoubleMulGT(x, f, m) == DoubleMulCmp(x, f, m) = 1

\* m > x * f, as the double comparison decides it.
DoubleMulLT(x, f, m) == DoubleMulCmp(x, f, m) = -1

----------------------------------------------------------------------------
(* Constants of the source *)

VOC_SAFETY_MARGIN_FACTOR_MIN == Literal(11, 10, 4)

VOC_SAFETY_MARGIN_FACTOR_IDEAL == Literal(12, 10, -2)

\* The literals 0.9, 1.25, 1.05 and 0.95 of the sizing rules.
NEAR_LIMIT_FACTOR == Literal(9, 10, 1)

CLIPPING_FACTOR == Literal(125, 100, 0)

INVERTER_MIN_MARGIN == Literal(105, 100, 2)

INVERTER_MAX_MARGIN == Literal(95, 100, -2)

defaultSystemInputs ==
  [ peakSunHours |-> RatInt(4),
    estimatedDailyUsageWh |-> 0,
    batteryDoD |-> 80,
    inverterEfficiency |-> 90,
    solarPanelEfficiency |-> 85,
    systemWideVoltage |-> 48 ]

componentTypeOptions ==
  << "Individual Solar Panel", "Solar Array Configuration",
     "MPPT Charge Controller", "Battery", "Inverter" >>

levelPrefixMap ==
  [ l \in { "error", "warn-safety", "warn-sizing", "warn-c-rate", "warn",
            "info-safety", "info" } |->
      CASE l = "error" -> "Error:"
        [] l = "warn-safety" -> "Warning (Safety Margin):"
        [] l = "warn-sizing" -> "Warning (Sizing):"
        [] l = "warn-c-rate" -> "Warning (C-Rate):"
        [] l = "warn" -> "Warning:"
        [] l = "info-safety" -> "Info (Safety Margin):"
        [] OTHER -> "Info:" ]

\* The default property set of a new component of each type.
DefaultProperties(type) ==
  CASE type = "Individual Solar Panel" ->
         [ voc |-> Empty, isc |-> Empty, vmp |-> Empty, imp |-> Empty,
           pmax |-> Empty, costUsd |-> Empty, tempCoeffVocPctPerC |-> Empty,
           tempCoeffPmaxPctPerC |-> Empty ]
    [] type = "Solar Array Configuration" ->
         [ selectedPanelId |-> Empty, panelsInSeries |-> Txt(1),
           numberOfStrings |-> Txt(1), assignedMpptId |-> Empty ]
    [] type = "MPPT Charge Controller" ->
         [ maxInputVoltage |-> Empty, maxInputCurrent |-> Empty,
           maxOutputCurrent |-> Empty, nominalBatteryVoltage |-> Empty,
           costUsd |-> Empty ]
    [] type = "Battery" ->
         [ nominalVoltage |-> Empty, capacityAh |-> Empty,
           maxChargeCurrent |-> Empty, maxDischargeCurrent |-> Empty,
           costUsd |-> Empty ]
    [] OTHER ->
         [ inputVoltageMin |-> Empty, inputVoltageMax |-> Empty,
           ratedPower |-> Empty, surgePower |-> Empty, efficiencyPct |-> Empty,
           idleDrawW |-> Empty, costUsd |-> Empty ]

----------------------------------------------------------------------------
(* Derived lists *)

RECURSIVE filterType(_, _)
\* components.filter(c => c.type === type), order kept.
filterType(s, type) ==
  IF s = <<>> THEN <<>>
  ELSE IF Head(s).type = type
       THEN <<Head(s)>> \o filterType(Tail(s), type)
       ELSE filterType(Tail(s), type)

panelsOf(cs) == filterType(cs, "Individual Solar Panel")

arraysOf(cs) == filterType(cs, "Solar Array Configuration")

mpptsOf(cs) == filterType(cs, "MPPT Charge Controller")

batteriesOf(cs) == filterType(cs, "Battery")

invertersOf(cs) == filterType(cs, "Inverter")

\* A lookup that falls back to the first panel when no panel has the id.
FindPanelOrFirst(ps, text) ==
  LET hits == { i \in 1..Len(ps) : ps[i].id = Number(text) }
  IN  IF hits = {} THEN (IF Len(ps) > 0 THEN 1 ELSE 0)
      ELSE CHOOSE i \in hits : \A j \in hits : i <= j

\* panels.find(p => p.id === Number(text)): the index of the first match, 0 if none.
FindPanel(ps, text) ==
  LET hits == { i \in 1..Len(ps) : ps[i].id = Number(text) }
  IN  IF hits = {} THEN 0 ELSE CHOOSE i \in hits : \A j \in hits : i <= j

----------------------------------------------------------------------------
(* Statistics aggregator: the stats memo *)

RECURSIVE SumSeq(_)
SumSeq(s) == IF s = <<>> THEN 0 ELSE Head(s) + SumSeq(Tail(s))

\* An array power that leaves out the number of strings.
ArrayPowerOneString(ps, arr) ==
  LET k == FindPanel(ps, arr.properties.selectedPanelId)
  IN  IF k = 0 THEN 0
      ELSE LET pmax == getNum(ps[k].properties.pmax)
               inSeries == getNum(arr.properties.panelsInSeries)
               strings == getNum(arr.properties.numberOfStrings)
           IN  IF ~isNaN(pmax) /\ ~isNaN(inSeries) /\ ~isNaN(strings)
               THEN pmax * inSeries
               ELSE 0

\* One array's term of totalSolarPower: 0 unless the panel is found and pmax,
\* panelsInSeries and numberOfStrings all parse.
ArrayPower(ps, arr) ==
  LET k == FindPanel(ps, arr.properties.selectedPanelId)
  IN  IF k = 0 THEN 0
      ELSE LET pmax == getNum(ps[k].properties.pmax)
               inSeries == getNum(arr.properties.panelsInSeries)
               strings == getNum(arr.properties.numberOfStrings)
           IN  IF ~isNaN(pmax) /\ ~isNaN(inSeries) /\ ~isNaN(strings)
               THEN pmax * inSeries * strings
               ELSE 0

TotalSolarPower(cs) ==
  LET ps == panelsOf(cs)
      as == arraysOf(cs)
  IN  SumSeq([i \in 1..Len(as) |-> ArrayPower(ps, as[i])])

\* Sum of a numeric property over a list, unparsable values skipped.
SumProp(list, key) ==
  SumSeq([i \in 1..Len(list) |->
            LET v == getNum(list[i].properties[key])
            IN  IF isNaN(v) THEN 0 ELSE v])

RECURSIVE AddAll(_, _)
\* Set.add in iteration order: the distinct values in first-insertion order.
AddAll(seen, vals) ==
  IF vals = <<>> THEN seen
  ELSE IF isNaN(Head(vals)) \/ \E i \in 1..Len(seen) : seen[i] = Head(vals)
       THEN AddAll(seen, Tail(vals))
       ELSE AddAll(Append(seen, Head(vals)), Tail(vals))

BatteryVoltages(bs) ==
  AddAll(<<>>, [i \in 1..Len(bs) |-> getNum(bs[i].properties.nominalVoltage)])

NotApplicable == <<"N/A", 0>>

\* A nominal voltage taken from the last battery instead of the first.
SystemNominalVoltageLast(batteryVoltages) ==
  IF Len(batteryVoltages) > 0 THEN String(batteryVoltages[Len(batteryVoltages)])
  ELSE <<"N/A", 0>>

SystemNominalVoltage(batteryVoltages) ==
  IF Len(batteryVoltages) > 0 THEN String(batteryVoltages[1]) ELSE NotApplicable

VoltageConsistencyIssue(batteryVoltages) == Len(batteryVoltages) > 1

PanelInterconnectCables(as) ==
  SumSeq([i \in 1..Len(as) |->
            LET inSeries == getNum(as[i].properties.panelsInSeries)
                strings == getNum(as[i].properties.numberOfStrings)
            IN  IF isNaN(inSeries) \/ isNaN(strings) \/ inSeries < 2 \/ strings < 1
                THEN 0
                ELSE (inSeries - 1) * strings])

ArrayToChargerCables(as) ==
  SumSeq([i \in 1..Len(as) |->
            LET strings == getNum(as[i].properties.numberOfStrings)
            IN  IF isNaN(strings) \/ strings < 1 THEN 0 ELSE 2 * strings])

Hundred == RatInt(100)

\* The production/consumption ratio: a number, or the sentinel 'N/A'.
RatioNumber(r) == [kind |-> "number", value |-> r]

RatioNA == [kind |-> "N/A", value |-> RatInt(0)]

ComputeStats(cs, si) ==
  LET as == arraysOf(cs)
      bs == batteriesOf(cs)
      totalSolarPower == TotalSolarPower(cs)
      totalBatteryCapacity == SumProp(bs, "capacityAh")
      totalInverterPower == SumProp(invertersOf(cs), "ratedPower")
      batteryVoltages == BatteryVoltages(bs)
      totalBatteryEnergyWh == totalBatteryCapacity * si.systemWideVoltage
      estimatedDailySolarProductionWh ==
        RatMul(RatMul(RatInt(totalSolarPower), si.peakSunHours),
               Rat(si.solarPanelEfficiency, 100))
      usableBatteryEnergyWh ==
        RatMul(RatInt(totalBatteryEnergyWh), Rat(si.batteryDoD, 100))
      energyNeededAdjustedWh ==
        IF si.estimatedDailyUsageWh > 0
        THEN RatDiv(RatInt(si.estimatedDailyUsageWh), Rat(si.inverterEfficiency, 100))
        ELSE RatInt(0)
      canRecharge == totalSolarPower > 0 /\ usableBatteryEnergyWh[1] > 0
      rechargeTimeEffectiveSunHours ==
        IF canRecharge
        THEN RatDiv(RatMul(RatInt(totalBatteryEnergyWh), Rat(si.batteryDoD, 100)),
                    RatMul(RatInt(totalSolarPower), Rat(si.solarPanelEfficiency, 100)))
        ELSE RatInt(0)
  IN  [ totalSolarPower |-> totalSolarPower,
        estimatedDailySolarProductionWh |-> estimatedDailySolarProductionWh,
        totalBatteryCapacity |-> totalBatteryCapacity,
        totalBatteryEnergyWh |-> totalBatteryEnergyWh,
        totalInverterPower |-> totalInverterPower,
        systemNominalVoltage |-> SystemNominalVoltage(batteryVoltages),
        voltageConsistencyIssue |-> VoltageConsistencyIssue(batteryVoltages),
        estimatedBatteryAutonomyDays |->
          IF usableBatteryEnergyWh[1] > 0 /\ energyNeededAdjustedWh[1] > 0
          THEN RatDiv(usableBatteryEnergyWh, energyNeededAdjustedWh)
          ELSE RatInt(0),
        dailyEnergyBalanceWh |->
          RatSub(estimatedDailySolarProductionWh, energyNeededAdjustedWh),
        rechargeTimePshDays |->
          IF canRecharge /\ si.peakSunHours[1] > 0
          THEN RatDiv(rechargeTimeEffectiveSunHours, si.peakSunHours)
          ELSE RatInt(0),
        rechargeTimeEffectiveSunHours |-> rechargeTimeEffectiveSunHours,
        productionToConsumptionRatioPercentage |->
          IF energyNeededAdjustedWh[1] > 0
          THEN RatioNumber(RatMul(RatDiv(estimatedDailySolarProductionWh,
                                         energyNeededAdjustedWh), Hundred))
          ELSE IF estimatedDailySolarProductionWh[1] > 0 THEN RatioNA
          ELSE RatioNumber(RatInt(0)),
        panelInterconnectCables |-> PanelInterconnectCables(as),
        arrayToChargerCables |-> ArrayToChargerCables(as),
        chargerToBatteryCables |-> Len(mpptsOf(cs)) * 2,
        batteryInterconnectCables |->
          IF Len(bs) > 1 THEN (Len(bs) - 1) * 2 ELSE 0,
        batteryToInverterCables |-> Len(invertersOf(cs)) * 2,
        totalEstimatedCables |-> 0 ]

\* A cable total that leaves out the links between batteries.
statsWithoutBatteryLinks(st) ==
  [st EXCEPT !.totalEstimatedCables =
     st.panelInterconnectCables + st.arrayToChargerCables
       + st.chargerToBatteryCables + st.batteryToInverterCables]

\* The second memo: the stats with the cable total filled in.
statsWithCableTotal(st) ==
  [st EXCEPT !.totalEstimatedCables =
     st.panelInterconnectCables + st.arrayToChargerCables
       + st.chargerToBatteryCables + st.batteryInterconnectCables
       + st.batteryToInverterCables]

----------------------------------------------------------------------------
(* Diagnostics engine: the messages memo *)

\* add(level, text): the message with its level prefix.
Msg(level, key, who, n) ==
  [ level |-> level,
    text |-> [prefix |-> levelPrefixMap[level], key |-> key, who |-> who, n |-> n] ]

RECURSIVE ConcatAll(_)
ConcatAll(ss) == IF ss = <<>> THEN <<>> ELSE Head(ss) \o ConcatAll(Tail(ss))

\* arrays.filter(a => !a.properties.assignedMpptId)
unassignedArrays(as) ==
  SelectSeq(as, LAMBDA a : IsFalsyText(a.properties.assignedMpptId))

\* An unassigned-arrays report that warns whether or not a controller exists.
UnassignedMessagesAlwaysWarn(cs) ==
  LET n == Len(unassignedArrays(arraysOf(cs)))
  IN  IF n > 0 THEN <<Msg("warn", "ArraysNotAssigned", <<>>, n)>> ELSE <<>>

UnassignedMessages(cs) ==
  LET n == Len(unassignedArrays(arraysOf(cs)))
  IN  IF n > 0
      THEN IF Len(mpptsOf(cs)) > 0
           THEN <<Msg("warn", "ArraysNotAssigned", <<>>, n)>>
           ELSE <<Msg("info", "ArraysButNoMppt", <<>>, n)>>
      ELSE <<>>

totalMpptOutputCurrent(ms) == SumProp(ms, "maxOutputCurrent")

\* arrays.filter(a => a.properties.assignedMpptId === String(mppt.id))
assignedTo(as, mppt) ==
  SelectSeq(as, LAMBDA a : a.properties.assignedMpptId = String(mppt.id))

\* A Voc check whose 10 % margin comparison is not strict.
VocMessagesNonStrict(ps, a, mppt) ==
  LET k == FindPanel(ps, a.properties.selectedPanelId)
      maxInputV == getNum(mppt.properties.maxInputVoltage)
  IN  IF k = 0 THEN <<>>
      ELSE LET voc == getNum(ps[k].properties.voc)
               inSeries == getNum(a.properties.panelsInSeries)
               arrayVoc == voc * inSeries
           IN  IF isNaN(voc) \/ isNaN(inSeries) \/ isNaN(maxInputV) THEN <<>>
               ELSE IF arrayVoc > maxInputV
                    THEN <<Msg("error", "VocExceeds", <<a.name, mppt.name>>, 0)>>
               ELSE IF DoubleMulCmp(arrayVoc, VOC_SAFETY_MARGIN_FACTOR_MIN, maxInputV) >= 0
                    THEN <<Msg("warn-safety", "VocBelowMinMargin", <<a.name, mppt.name>>, 0)>>
               ELSE IF DoubleMulGT(arrayVoc, VOC_SAFETY_MARGIN_FACTOR_IDEAL, maxInputV)
                    THEN <<Msg("info-safety", "VocBelowIdealMargin", <<a.name, mppt.name>>, 0)>>
               ELSE <<>>

\* The Voc messages of one assigned array against one MPPT.
VocMessages(ps, a, mppt) ==
  LET k == FindPanel(ps, a.properties.selectedPanelId)
      maxInputV == getNum(mppt.properties.maxInputVoltage)
  IN  IF k = 0 THEN <<>>
      ELSE LET voc == getNum(ps[k].properties.voc)
               inSeries == getNum(a.properties.panelsInSeries)
               arrayVoc == voc * inSeries
           IN  IF isNaN(voc) \/ isNaN(inSeries) \/ isNaN(maxInputV) THEN <<>>
               ELSE IF arrayVoc > maxInputV
                    THEN <<Msg("error", "VocExceeds", <<a.name, mppt.name>>, 0)>>
               ELSE IF DoubleMulGT(arrayVoc, VOC_SAFETY_MARGIN_FACTOR_MIN, maxInputV)
                    THEN <<Msg("warn-safety", "VocBelowMinMargin", <<a.name, mppt.name>>, 0)>>
               ELSE IF DoubleMulGT(arrayVoc, VOC_SAFETY_MARGIN_FACTOR_IDEAL, maxInputV)
                    THEN <<Msg("info-safety", "VocBelowIdealMargin", <<a.name, mppt.name>>, 0)>>
               ELSE <<>>

\* One assigned array's term of aggregateIsc.
\* An array Isc that leaves out the number of strings.
ArrayIscOneString(ps, a) ==
  LET k == FindPanel(ps, a.properties.selectedPanelId)
  IN  IF k = 0 THEN 0
      ELSE LET isc == getNum(ps[k].properties.isc)
               strings == getNum(a.properties.numberOfStrings)
           IN  IF ~isNaN(isc) /\ ~isNaN(strings) THEN isc ELSE 0

ArrayIsc(ps, a) ==
  LET k == FindPanel(ps, a.properties.selectedPanelId)
  IN  IF k = 0 THEN 0
      ELSE LET isc == getNum(ps[k].properties.isc)
               strings == getNum(a.properties.numberOfStrings)
           IN  IF ~isNaN(isc) /\ ~isNaN(strings) THEN isc * strings ELSE 0

AggregateIsc(ps, assigned) ==
  SumSeq([i \in 1..Len(assigned) |-> ArrayIsc(ps, assigned[i])])

AggregatePmax(ps, assigned) ==
  SumSeq([i \in 1..Len(assigned) |-> ArrayPower(ps, assigned[i])])

IscMessages(mppt, aggregateIsc) ==
  LET maxInputI == getNum(mppt.properties.maxInputCurrent)
  IN  IF ~isNaN(maxInputI) /\ maxInputI > 0
      THEN IF aggregateIsc > maxInputI
           THEN <<Msg("error", "IscExceeds", <<mppt.name>>, 0)>>
           ELSE IF DoubleMulLT(maxInputI, NEAR_LIMIT_FACTOR, aggregateIsc)
                THEN <<Msg("warn-sizing", "IscOver90", <<mppt.name>>, 0)>>
                ELSE <<>>
      ELSE <<>>

\* A clipping check whose 125 % comparison is not strict.
ClippingMessagesNonStrict(mppt, aggregatePmax) ==
  LET maxOutI == getNum(mppt.properties.maxOutputCurrent)
      battV == getNum(mppt.properties.nominalBatteryVoltage)
      mpptPowerCap == maxOutI * battV
  IN  IF ~isNaN(maxOutI) /\ ~isNaN(battV) /\ maxOutI > 0 /\ battV > 0
      THEN IF DoubleMulCmp(mpptPowerCap, CLIPPING_FACTOR, aggregatePmax) <= 0
           THEN <<Msg("warn-sizing", "SignificantClipping", <<mppt.name>>, 0)>>
           ELSE IF aggregatePmax > mpptPowerCap
                THEN <<Msg("info", "MinorClipping", <<mppt.name>>, 0)>>
                ELSE <<>>
      ELSE <<>>

ClippingMessages(mppt, aggregatePmax) ==
  LET maxOutI == getNum(mppt.properties.maxOutputCurrent)
      battV == getNum(mppt.properties.nominalBatteryVoltage)
      mpptPowerCap == maxOutI * battV
  IN  IF ~isNaN(maxOutI) /\ ~isNaN(battV) /\ maxOutI > 0 /\ battV > 0
      THEN IF DoubleMulLT(mpptPowerCap, CLIPPING_FACTOR, aggregatePmax)
           THEN <<Msg("warn-sizing", "SignificantClipping", <<mppt.name>>, 0)>>
           ELSE IF aggregatePmax > mpptPowerCap
                THEN <<Msg("info", "MinorClipping", <<mppt.name>>, 0)>>
                ELSE <<>>
      ELSE <<>>

\* The body of mppts.forEach for one controller.
MpptMessages(ps, as, mppt) ==
  LET assigned == assignedTo(as, mppt)
  IN  (IF Len(assigned) = 0
       THEN <<Msg("warn", "MpptNoArrays", <<mppt.name>>, 0)>> ELSE <<>>)
      \o ConcatAll([i \in 1..Len(assigned) |-> VocMessages(ps, assigned[i], mppt)])
      \o IscMessages(mppt, AggregateIsc(ps, assigned))
      \o ClippingMessages(mppt, AggregatePmax(ps, assigned))

\* estDischargeCurrent > maxDischarge * f, with estDischargeCurrent the double
\* quotient power / nominalV (nominalV > 0, maxDischarge > 0, f stored at or
\* above its decimal): the rounded product is never below the rounded quotient
\* when the two are equal as reals, so the order is that of the reals.
QuotientGT(power, nominalV, maxDischarge, f) ==
  f.den * power > f.num * maxDischarge * nominalV

\* The body of batteries.forEach for one battery.
BatteryMessages(b, totalOut, st) ==
  LET capacityAh == getNum(b.properties.capacityAh)
      maxCharge == getNum(b.properties.maxChargeCurrent)
      maxDischarge == getNum(b.properties.maxDischargeCurrent)
      nominalV == getNum(b.properties.nominalVoltage)
  IN  IF ~isNaN(capacityAh) /\ capacityAh > 0
      THEN (IF ~isNaN(maxCharge) /\ maxCharge > 0
            THEN IF totalOut > maxCharge
                 THEN <<Msg("error", "ChargeExceeds", <<b.name>>, 0)>>
                 ELSE IF DoubleMulLT(maxCharge, NEAR_LIMIT_FACTOR, totalOut)
                      THEN <<Msg("warn-c-rate", "ChargeNearLimit", <<b.name>>, 0)>>
                      ELSE <<>>
            ELSE <<>>)
           \o
           (IF ~isNaN(maxDischarge) /\ maxDischarge > 0 /\ ~isNaN(nominalV) /\ nominalV > 0
            THEN IF st.totalInverterPower > maxDischarge * nominalV
                 THEN <<Msg("error", "DischargeExceeds", <<b.name>>, 0)>>
                 ELSE IF QuotientGT(st.totalInverterPower, nominalV, maxDischarge,
                                    NEAR_LIMIT_FACTOR)
                      THEN <<Msg("warn-c-rate", "DischargeNearLimit", <<b.name>>, 0)>>
                      ELSE <<>>
            ELSE <<>>)
      ELSE <<>>

\* An inverter check that looks at the maximum only when the minimum is silent.
InverterMessagesFirstOnly(inv, sysV) ==
  LET vMin == getNum(inv.properties.inputVoltageMin)
      vMax == getNum(inv.properties.inputVoltageMax)
  IN  IF ~isNaN(vMin) /\ sysV < vMin
      THEN <<Msg("error", "BelowInverterMin", <<inv.name>>, 0)>>
      ELSE IF ~isNaN(vMin) /\ DoubleMulGT(vMin, INVERTER_MIN_MARGIN, sysV)
      THEN <<Msg("warn-sizing", "NearInverterMin", <<inv.name>>, 0)>>
      ELSE IF ~isNaN(vMax) /\ sysV > vMax
      THEN <<Msg("error", "AboveInverterMax", <<inv.name>>, 0)>>
      ELSE IF ~isNaN(vMax) /\ DoubleMulLT(vMax, INVERTER_MAX_MARGIN, sysV)
      THEN <<Msg("warn-sizing", "NearInverterMax", <<inv.name>>, 0)>>
      ELSE <<>>

\* The body of inverters.forEach for one inverter.
InverterMessages(inv, sysV) ==
  LET vMin == getNum(inv.properties.inputVoltageMin)
      vMax == getNum(inv.properties.inputVoltageMax)
  IN  (IF ~isNaN(vMin) /\ sysV < vMin
       THEN <<Msg("error", "BelowInverterMin", <<inv.name>>, 0)>>
       ELSE IF ~isNaN(vMin) /\ DoubleMulGT(vMin, INVERTER_MIN_MARGIN, sysV)
            THEN <<Msg("warn-sizing", "NearInverterMin", <<inv.name>>, 0)>>
            ELSE <<>>)
      \o
      (IF ~isNaN(vMax) /\ sysV > vMax
       THEN <<Msg("error", "AboveInverterMax", <<inv.name>>, 0)>>
       ELSE IF ~isNaN(vMax) /\ DoubleMulLT(vMax, INVERTER_MAX_MARGIN, sysV)
            THEN <<Msg("warn-sizing", "NearInverterMax", <<inv.name>>, 0)>>
            ELSE <<>>)

\* Production notes whose deficit test includes a ratio of exactly 80.
ProductionMessagesNonStrict(cs, st, si) ==
  LET ratio == st.productionToConsumptionRatioPercentage
      aut == st.estimatedBatteryAutonomyDays
  IN  (IF st.totalSolarPower = 0 /\ Len(arraysOf(cs)) > 0
       THEN <<Msg("warn", "NoValidPmax", <<>>, 0)>> ELSE <<>>)
      \o (IF si.estimatedDailyUsageWh = 0 /\ Len(cs) > 0
          THEN <<Msg("warn", "DailyUsageZero", <<>>, 0)>> ELSE <<>>)
      \o (IF RatLT(aut, <<1, 2>>) /\ aut[1] > 0
          THEN <<Msg("warn-sizing", "LowAutonomy", <<>>, 0)>> ELSE <<>>)
      \o (IF ratio.kind = "number"
          THEN IF ~RatGT(ratio.value, RatInt(80))
               THEN <<Msg("warn-sizing", "ProductionDeficit", <<>>, 0)>>
               ELSE IF RatGT(ratio.value, RatInt(150))
                    THEN <<Msg("info", "ProductionSurplus", <<>>, 0)>>
                    ELSE <<>>
          ELSE <<>>)

\* Production / usage and autonomy notes.
ProductionMessages(cs, st, si) ==
  LET ratio == st.productionToConsumptionRatioPercentage
      aut == st.estimatedBatteryAutonomyDays
  IN  (IF st.totalSolarPower = 0 /\ Len(arraysOf(cs)) > 0
       THEN <<Msg("warn", "NoValidPmax", <<>>, 0)>> ELSE <<>>)
      \o (IF si.estimatedDailyUsageWh = 0 /\ Len(cs) > 0
          THEN <<Msg("warn", "DailyUsageZero", <<>>, 0)>> ELSE <<>>)
      \o (IF RatLT(aut, <<1, 2>>) /\ aut[1] > 0
          THEN <<Msg("warn-sizing", "LowAutonomy", <<>>, 0)>> ELSE <<>>)
      \o (IF ratio.kind = "number"
          THEN IF RatLT(ratio.value, RatInt(80))
               THEN <<Msg("warn-sizing", "ProductionDeficit", <<>>, 0)>>
               ELSE IF RatGT(ratio.value, RatInt(150))
                    THEN <<Msg("info", "ProductionSurplus", <<>>, 0)>>
                    ELSE <<>>
          ELSE <<>>)

\* General notes in the other order.
GeneralNotesReversed ==
  << Msg("info-safety", "ElectricalCodes", <<>>, 0), Msg("info", "IdealWiring", <<>>, 0) >>

\* General notes that are added only while no message list exists yet.
GeneralNotesOnce ==
  IF messages = <<>>
  THEN << Msg("info", "IdealWiring", <<>>, 0), Msg("info-safety", "ElectricalCodes", <<>>, 0) >>
  ELSE <<>>

GeneralNotes ==
  << Msg("info", "IdealWiring", <<>>, 0), Msg("info-safety", "ElectricalCodes", <<>>, 0) >>

\* A warning test that knows only the plain warn level.
IsWarnLevelPlain(level) == level = "warn"

\* level.startsWith('warn')
IsWarnLevel(level) == level \in {"warn", "warn-safety", "warn-sizing", "warn-c-rate"}

\* The final summary over the messages emitted so far.
FinalSummary(cs, msgs) ==
  LET hasErrors == \E i \in 1..Len(msgs) : msgs[i].level = "error"
      hasWarnings == \E i \in 1..Len(msgs) : IsWarnLevel(msgs[i].level)
  IN  IF Len(cs) > 0
      THEN IF hasErrors THEN <<Msg("error", "SummaryErrors", <<>>, 0)>>
           ELSE IF hasWarnings THEN <<Msg("warn", "SummaryWarnings", <<>>, 0)>>
           ELSE <<Msg("info", "SummaryCompatible", <<>>, 0)>>
      ELSE <<>>

\* A message list that shows the errors first.
ComputeMessagesErrorsFirst(cs, st, si) ==
  LET ps == panelsOf(cs)
      as == arraysOf(cs)
      ms == mpptsOf(cs)
      bs == batteriesOf(cs)
      is == invertersOf(cs)
      totalOut == totalMpptOutputCurrent(ms)
      msgs ==
        (IF Len(cs) = 0 THEN <<Msg("info", "AddComponents", <<>>, 0)>> ELSE <<>>)
        \o (IF st.voltageConsistencyIssue
            THEN <<Msg("error", "MixedVoltages", <<>>, 0)>> ELSE <<>>)
        \o UnassignedMessages(cs)
        \o ConcatAll([i \in 1..Len(ms) |-> MpptMessages(ps, as, ms[i])])
        \o ConcatAll([i \in 1..Len(bs) |-> BatteryMessages(bs[i], totalOut, st)])
        \o ConcatAll([i \in 1..Len(is) |-> InverterMessages(is[i], si.systemWideVoltage)])
        \o ProductionMessages(cs, st, si)
      sorted == SelectSeq(msgs, LAMBDA m : m.level = "error")
                  \o SelectSeq(msgs, LAMBDA m : m.level # "error")
                  \o GeneralNotes
  IN  sorted \o FinalSummary(cs, sorted)

ComputeMessages(cs, st, si) ==
  LET ps == panelsOf(cs)
      as == arraysOf(cs)
      ms == mpptsOf(cs)
      bs == batteriesOf(cs)
      is == invertersOf(cs)
      totalOut == totalMpptOutputCurrent(ms)
      msgs ==
        (IF Len(cs) = 0 THEN <<Msg("info", "AddComponents", <<>>, 0)>> ELSE <<>>)
        \o (IF st.voltageConsistencyIssue
            THEN <<Msg("error", "MixedVoltages", <<>>, 0)>> ELSE <<>>)
        \o UnassignedMessages(cs)
        \o ConcatAll([i \in 1..Len(ms) |-> MpptMessages(ps, as, ms[i])])
        \o ConcatAll([i \in 1..Len(bs) |-> BatteryMessages(bs[i], totalOut, st)])
        \o ConcatAll([i \in 1..Len(is) |-> InverterMessages(is[i], si.systemWideVoltage)])
        \o ProductionMessages(cs, st, si)
        \o GeneralNotes
  IN  msgs \o FinalSummary(cs, msgs)

----------------------------------------------------------------------------
(* The host: the component store of App and its handlers.  A handler's state *)
(* update is followed by React's re-render, in which each memo is recomputed *)
(* unless every one of its dependencies is the object of the last render.    *)

\* Bounds of the exploration.
MaxComponents == 3

\* The last reading of Date.now() the exploration reaches, in milliseconds
\* since the session began.
MaxClock == 6

\* The number of fractions Math.random() can leave in an id. A double near
\* Date.now() keeps 12 bits below the unit, 4096 fractions; the model keeps 2.
Fractions == 2

\* Object.is on derived lists compared by what they hold.
SameArrayByContent(previous, current) == previous = current

\* Object.is(previous, current) on two derived lists: each render builds them
\* anew with filter, so the list of this render is never the object of the
\* last one, whatever the two hold.
SameArray(previous, current) == FALSE

\* The dependencies of the stats memo against those of the last render.  The
\* state objects are compared by what they hold, which reuses at least as
\* often as the comparison of the objects does.
StatsDepsSame(cs, si) ==
  /\ SameArray(arraysOf(components), arraysOf(cs))
  /\ SameArray(panelsOf(components), panelsOf(cs))
  /\ SameArray(batteriesOf(components), batteriesOf(cs))
  /\ SameArray(invertersOf(components), invertersOf(cs))
  /\ si = systemInputs

\* The dependencies of the messages memo; stats is the object of the last
\* render only when the stats memo was reused.
MessagesDepsSame(cs, si) ==
  /\ cs = components
  /\ StatsDepsSame(cs, si)
  /\ SameArray(arraysOf(components), arraysOf(cs))
  /\ SameArray(mpptsOf(components), mpptsOf(cs))
  /\ SameArray(panelsOf(components), panelsOf(cs))
  /\ si.estimatedDailyUsageWh = systemInputs.estimatedDailyUsageWh
  /\ si.systemWideVoltage = systemInputs.systemWideVoltage

\* What a render leaves in the two memos.
Render(cs, si) ==
  /\ stats' = IF StatsDepsSame(cs, si) THEN stats ELSE ComputeStats(cs, si)
  /\ messages' = IF MessagesDepsSame(cs, si) THEN messages
                 ELSE ComputeMessages(cs, stats', si)
  /\ phase' = "rendered"

NoStats == ComputeStats(<<>>, defaultSystemInputs)

Init ==
  /\ components = <<>>
  /\ systemInputs = defaultSystemInputs
  /\ clock = 0
  /\ stats = ComputeStats(<<>>, defaultSystemInputs)
  /\ messages = ComputeMessages(<<>>, ComputeStats(<<>>, defaultSystemInputs),
                                defaultSystemInputs)
  /\ phase = "rendered"

\* Date.now() + idx + Math.random(), in units of 1 / Fractions: now is the
\* reading of the clock and random the fraction drawn.
NewId(now, idx, random) == Fractions * (now + idx) + random

CountType(cs, type) == Len(filterType(cs, type))

\* One new component of addComponents.
NewComponent(cs, type, now, idx, random) ==
  [ id |-> NewId(now, idx, random),
    type |-> type,
    name |-> type \o " " \o ToString(CountType(cs, type) + idx + 1),
    properties |-> DefaultProperties(type) ]

\* now is what Date.now() reads during the call, never before the last reading;
\* random[i] is the fraction Math.random() draws for the i-th new item.
addComponents(type, quantityToAdd, now, random) ==
  LET n == IF quantityToAdd > 1 THEN quantityToAdd ELSE 1
      newItems == [i \in 1..n |-> NewComponent(components, type, now, i - 1, random[i])]
  IN  /\ Len(components) + n <= MaxComponents
      /\ clock <= now /\ now <= MaxClock
      /\ components' = components \o newItems
      /\ clock' = now
      /\ UNCHANGED systemInputs
      /\ Render(components', systemInputs)

\* prev.map(c => c.id !== id ? c : {...c, properties: {...c.properties, [key]: value}})
SetProperty(cs, id, key, value) ==
  [i \in 1..Len(cs) |->
     IF cs[i].id # id THEN cs[i]
     ELSE [cs[i] EXCEPT !.properties = [k \in DOMAIN cs[i].properties \cup {key} |->
                                          IF k = key THEN value ELSE cs[i].properties[k]]]]

updateComponentProperty(id, key, value) ==
  /\ components' = SetProperty(components, id, key, value)
  /\ UNCHANGED <<systemInputs, clock>>
  /\ Render(components', systemInputs)

updateComponentName(id, name) ==
  /\ components' = [i \in 1..Len(components) |->
                      IF components[i].id = id
                      THEN [components[i] EXCEPT !.name = name]
                      ELSE components[i]]
  /\ UNCHANGED <<systemInputs, clock>>
  /\ Render(components', systemInputs)

\* A removal that takes every component of the removed one's type with it.
RemoveAllOfType(cs, id) ==
  SelectSeq(cs, LAMBDA c : \A i \in 1..Len(cs) : cs[i].id = id => c.type # cs[i].type)

\* prev.filter(c => c.id !== id).map(clear assignedMpptId === String(id))
RemoveFrom(cs, id) ==
  LET kept == SelectSeq(cs, LAMBDA c : c.id # id)
  IN  [i \in 1..Len(kept) |->
         IF kept[i].type = "Solar Array Configuration"
            /\ kept[i].properties.assignedMpptId = String(id)
         THEN [kept[i] EXCEPT !.properties.assignedMpptId = Empty]
         ELSE kept[i]]

removeComponent(id) ==
  /\ components' = RemoveFrom(components, id)
  /\ UNCHANGED <<systemInputs, clock>>
  /\ Render(components', systemInputs)

\* prev.find(c => c.id === id): the index of the first match, 0 if none.
FindComponent(cs, id) ==
  LET hits == { i \in 1..Len(cs) : cs[i].id = id }
  IN  IF hits = {} THEN 0 ELSE CHOOSE i \in hits : \A j \in hits : i <= j

\* A clone that copies every property of the original, references included.
CloneOfShallow(orig, newId) ==
  [orig EXCEPT !.id = newId, !.name = orig.name \o " (Clone)"]

CloneOf(orig, newId) ==
  IF orig.type = "Solar Array Configuration"
  THEN [orig EXCEPT !.id = newId, !.name = orig.name \o " (Clone)",
                    !.properties.assignedMpptId = Empty]
  ELSE [orig EXCEPT !.id = newId, !.name = orig.name \o " (Clone)"]

cloneComponent(id, now, random) ==
  LET k == FindComponent(components, id)
  IN  /\ Len(components) + 1 <= MaxComponents
      /\ clock <= now /\ now <= MaxClock
      /\ IF k = 0
         THEN UNCHANGED <<components, clock>>
         ELSE /\ components' = Append(components, CloneOf(components[k], NewId(now, 0, random)))
              /\ clock' = now
      /\ UNCHANGED systemInputs
      /\ Render(components', systemInputs)

handleSystemInput(key, value) ==
  /\ systemInputs' = [systemInputs EXCEPT ![key] = value]
  /\ UNCHANGED <<components, clock>>
  /\ Render(components, systemInputs')

\* x || d: d when x is NaN or 0.
OrElse(x, d) == IF isNaN(x) \/ x = 0 THEN d ELSE x

Clamp(lo, hi, x) == IF x < lo THEN lo ELSE IF x > hi THEN hi ELSE x

\* What the onChange handler of a system input field stores for the text typed.
SystemInputValue(key, text) ==
  CASE key = "peakSunHours" -> RatInt(OrElse(Number(text), 0))
    [] key = "estimatedDailyUsageWh" -> OrElse(Number(text), 0)
    [] key = "batteryDoD" -> Clamp(1, 100, OrElse(Number(text), 1))
    [] key = "inverterEfficiency" -> Clamp(1, 100, OrElse(Number(text), 1))
    [] key = "solarPanelEfficiency" -> Clamp(1, 100, OrElse(Number(text), 1))
    [] key = "systemWideVoltage" -> OrElse(Number(text), 12)

onSystemInputChange(key, text) == handleSystemInput(key, SystemInputValue(key, text))

\* An entry of an imported component list that is null.
NullEntry == [id |-> 0, type |-> "null", name |-> "", properties |-> <<>>]

\* typeof v === 'number' ? String(v) : (v ?? '')
SanitiseValue(v) ==
  IF v[1] = "jsnum" THEN Txt(v[2]) ELSE IF v[1] = "null" THEN Empty ELSE v

SanitiseEntry(c) ==
  [c EXCEPT !.properties = [k \in DOMAIN c.properties |-> SanitiseValue(c.properties[k])]]

\* { ...defaultSystemInputs, ...parsed.systemInputs }
MergeInputs(inputs) ==
  [ k \in DOMAIN defaultSystemInputs |->
      IF k \in DOMAIN inputs
      THEN (IF k = "peakSunHours" THEN RatInt(inputs[k]) ELSE inputs[k])
      ELSE defaultSystemInputs[k] ]

\* JSON.parse throws on text that is not JSON; reading a field of null and
\* reading the properties of a null entry throw as well.
ImportThrows(payload) ==
  \/ payload.json \in {"text", "null"}
  \/ /\ payload.hasList /\ payload.hasInputs
     /\ \E i \in 1..Len(payload.entries) : payload.entries[i].type = "null"

\* Array.isArray(parsed.components) && parsed.systemInputs
ImportAccepted(payload) ==
  ~ImportThrows(payload) /\ payload.hasList /\ payload.hasInputs

\* An import that stores the component list before it looks at the rest.
importDataEager(payload) ==
  IF payload.json = "object" /\ payload.hasList
     /\ \A i \in 1..Len(payload.entries) : payload.entries[i].type # "null"
  THEN /\ components' = [i \in 1..Len(payload.entries) |-> SanitiseEntry(payload.entries[i])]
       /\ systemInputs' = IF payload.hasInputs THEN MergeInputs(payload.inputs)
                          ELSE systemInputs
       /\ UNCHANGED clock
       /\ Render(components', systemInputs')
  ELSE UNCHANGED vars

importData(payload) ==
  IF ImportAccepted(payload)
  THEN /\ components' = [i \in 1..Len(payload.entries) |-> SanitiseEntry(payload.entries[i])]
       /\ systemInputs' = MergeInputs(payload.inputs)
       /\ UNCHANGED clock
       /\ Render(components', systemInputs')
  ELSE UNCHANGED vars

\* The inputs the exploration enters.
Ids(cs) == { cs[i].id : i \in 1..Len(cs) }

\* The options of the two reference dropdowns: '' or the id of a listed component.
ReferenceOptions(cs, key) ==
  {Empty} \cup
  { String(c.id) : c \in { cs[i] : i \in { j \in 1..Len(cs) :
      cs[j].type = (IF key = "selectedPanelId" THEN "Individual Solar Panel"
                    ELSE "MPPT Charge Controller") } } }

\* The exploration adds the component types that refer to one another.
AddedTypes == {componentTypeOptions[i] : i \in 1..3}

ReferenceKeys == {"selectedPanelId", "assignedMpptId"}

EditedKeys == {"panelsInSeries"}

EditedValues == {Txt(2)}

EditProperty ==
  \E i \in 1..Len(components) :
    \E key \in DOMAIN components[i].properties :
      \/ /\ key \in ReferenceKeys
         /\ \E value \in ReferenceOptions(components, key) :
              updateComponentProperty(components[i].id, key, value)
      \/ /\ key \in EditedKeys
         /\ \E value \in EditedValues :
              updateComponentProperty(components[i].id, key, value)

\* The largest quantity the exploration enters in the quantity field.
MaxQuantity == 2

\* Clicks of a session paced by hand: the clock has passed every id handed out.
PacedTimes == {clock + MaxQuantity}

NoFraction == [i \in 1..MaxQuantity |-> 0]

Next ==
  \/ \E type \in AddedTypes : \E quantityToAdd \in 1..MaxQuantity : \E now \in PacedTimes :
       addComponents(type, quantityToAdd, now, NoFraction)
  \/ EditProperty
  \/ Len(components) > 0 /\ updateComponentName(components[1].id, "Roof")
  \/ \E id \in Ids(components) : removeComponent(id)
  \/ \E id \in Ids(components) : \E now \in PacedTimes : cloneComponent(id, now, 0)
  \/ \E value \in {0, 1000} : handleSystemInput("estimatedDailyUsageWh", value)

Spec == Init /\ [][Next]_vars

\* Clicks that follow one another by one millisecond, less than the span of
\* ids a call with a quantity above 1 hands out.
MaxTick == 3

QuickTimes == { now \in {clock + 1} : now <= MaxTick }

Draws == [1..MaxQuantity -> 0..(Fractions - 1)]

\* The creating and removing handlers of a session whose clicks are quick.
QuickNext ==
  \/ \E quantityToAdd \in 1..MaxQuantity : \E now \in QuickTimes : \E random \in Draws :
       addComponents("Individual Solar Panel", quantityToAdd, now, random)
  \/ \E id \in Ids(components) : \E now \in QuickTimes : \E random \in 0..(Fractions - 1) :
       cloneComponent(id, now, random)
  \/ \E id \in Ids(components) : removeComponent(id)

QuickSpec == Init /\ [][QuickNext]_vars

----------------------------------------------------------------------------
(* The engine on its own: the two memos applied, one after the other, to an *)
(* input snapshot drawn from a bounded set of component lists and inputs.   *)

Component(id, type, name, properties) ==
  [id |-> id, type |-> type, name |-> name, properties |-> properties]

Panel(id, name, voc, isc, pmax) ==
  Component(id, "Individual Solar Panel", name,
            [DefaultProperties("Individual Solar Panel")
               EXCEPT !.voc = voc, !.isc = isc, !.pmax = pmax])

ArrayConfig(id, name, selectedPanelId, panelsInSeries, numberOfStrings, assignedMpptId) ==
  Component(id, "Solar Array Configuration", name,
            [ selectedPanelId |-> selectedPanelId, panelsInSeries |-> panelsInSeries,
              numberOfStrings |-> numberOfStrings, assignedMpptId |-> assignedMpptId ])

Mppt(id, name, maxInputVoltage, maxInputCurrent, maxOutputCurrent, nominalBatteryVoltage) ==
  Component(id, "MPPT Charge Controller", name,
            [DefaultProperties("MPPT Charge Controller")
               EXCEPT !.maxInputVoltage = maxInputVoltage,
                      !.maxInputCurrent = maxInputCurrent,
                      !.maxOutputCurrent = maxOutputCurrent,
                      !.nominalBatteryVoltage = nominalBatteryVoltage])

Battery(id, name, nominalVoltage, capacityAh, maxChargeCurrent, maxDischargeCurrent) ==
  Component(id, "Battery", name,
            [DefaultProperties("Battery")
               EXCEPT !.nominalVoltage = nominalVoltage, !.capacityAh = capacityAh,
                      !.maxChargeCurrent = maxChargeCurrent,
                      !.maxDischargeCurrent = maxDischargeCurrent])

Inverter(id, name, inputVoltageMin, inputVoltageMax, ratedPower) ==
  Component(id, "Inverter", name,
            [DefaultProperties("Inverter")
               EXCEPT !.inputVoltageMin = inputVoltageMin,
                      !.inputVoltageMax = inputVoltageMax, !.ratedPower = ratedPower])

\* The components a snapshot is assembled from, in stored order.
Catalog ==
  << Panel(1, "P200", Txt(40), Txt(10), Txt(200)),
     Panel(2, "Pblank", Empty, Junk, Empty),
     ArrayConfig(3, "A2s2p", Txt(1), Txt(2), Txt(2), Txt(8)),
     ArrayConfig(4, "A4s", Txt(1), Txt(4), Txt(1), Txt(8)),
     ArrayConfig(5, "Agone", Txt(99), Txt(2), Txt(1), Txt(8)),
     ArrayConfig(6, "Astale", Txt(1), Txt(-1), Txt(1), Txt(77)),
     ArrayConfig(7, "Afree", Txt(8), Txt(3), Txt(-1), Empty),
     Mppt(8, "M150", Txt(150), Txt(30), Txt(30), Txt(24)),
     Mppt(9, "Mblank", Empty, Empty, Empty, Empty),
     Battery(10, "B12", Sfx(12), Txt(100), Txt(40), Txt(100)),
     Battery(11, "B24", Txt(24), Txt(100), Txt(25), Txt(200)),
     Battery(12, "Bblank", Junk, Empty, Txt(20), Empty),
     Battery(13, "B12b", Txt(12), Txt(50), Empty, Empty),
     Inverter(14, "I48", Txt(40), Txt(60), Txt(2000)) >>

\* The largest number of components in a snapshot of the catalog.
MaxSnapshot == 4

RECURSIVE Pick(_, _)
\* The catalog entries whose index is in the set, in catalog order.
Pick(chosen, i) ==
  IF i > Len(Catalog) THEN <<>>
  ELSE IF i \in chosen THEN <<Catalog[i]>> \o Pick(chosen, i + 1)
       ELSE Pick(chosen, i + 1)

Reverse(s) == [i \in 1..Len(s) |-> s[Len(s) + 1 - i]]

CatalogSnapshots ==
  LET lists == { Pick(chosen, 1) :
                   chosen \in { c \in SUBSET (1..Len(Catalog)) : Cardinality(c) <= MaxSnapshot } }
  IN  lists \cup { Reverse(l) : l \in lists }

\* One panel, one array of it, one controller the array is assigned to: the
\* grid of string voltages against input-voltage limits.
VocTexts ==
  { Txt(0), Txt(10), Txt(11), Txt(12), Txt(25), Txt(30), Txt(31), Txt(50),
    Txt(100), Sfx(40), Txt(-30), Empty }

SeriesTexts == { Txt(1), Txt(2), Txt(4), Junk }

LimitTexts ==
  { Txt(0), Txt(10), Txt(11), Txt(33), Txt(55), Txt(60), Txt(110), Txt(120),
    Txt(150), Empty }

VocSnapshots ==
  { << Panel(1, "P", voc, Txt(10), Txt(100)),
       ArrayConfig(2, "A", Txt(1), inSeries, Txt(1), Txt(3)),
       Mppt(3, "M", maxV, Empty, Empty, Empty) >> :
      voc \in VocTexts, inSeries \in SeriesTexts, maxV \in LimitTexts }

IscTexts == { Txt(9), Txt(10), Txt(11), Junk }

StringTexts == { Txt(1), Txt(2), Empty }

CurrentLimitTexts == { Txt(-5), Txt(0), Txt(10), Txt(19), Txt(20), Txt(21), Empty }

\* One array of one panel on one controller, for the aggregate Isc check.
IscSnapshots ==
  { << Panel(1, "P", Txt(40), isc, Txt(100)),
       ArrayConfig(2, "A", Txt(1), Txt(1), strings, Txt(3)),
       Mppt(3, "M", Empty, maxI, Empty, Empty) >> :
      isc \in IscTexts, strings \in StringTexts, maxI \in CurrentLimitTexts }

PmaxTexts == { Txt(120), Txt(121), Txt(150), Txt(151), Empty }

OutputTexts == { Txt(-10), Txt(0), Txt(10), Empty }

BatteryVoltageTexts == { Txt(-12), Txt(0), Txt(12), Junk }

\* One array of one panel on one controller, for the clipping check.
ClippingSnapshots ==
  { << Panel(1, "P", Txt(40), Txt(10), pmax),
       ArrayConfig(2, "A", Txt(1), Txt(1), Txt(1), Txt(3)),
       Mppt(3, "M", Empty, Empty, maxOutI, battV) >> :
      pmax \in PmaxTexts, maxOutI \in OutputTexts, battV \in BatteryVoltageTexts }

MinimumTexts == { Txt(380), Txt(381), Txt(399), Txt(400), Empty }

MaximumTexts == { Txt(398), Txt(399), Txt(419), Txt(420), Junk }

\* One inverter, for the input voltage range check.
InverterSnapshots ==
  { << Inverter(1, "I", vMin, vMax, Txt(1000)) >> :
      vMin \in MinimumTexts, vMax \in MaximumTexts }

ProductionTexts == { Txt(-100), Txt(0), Txt(399), Txt(400), Txt(750), Txt(751) }

\* One panel in an array of one, for the production/consumption ratio.
ProductionSnapshots ==
  { << Panel(1, "P", Txt(40), Txt(10), pmax),
       ArrayConfig(2, "A", Txt(1), Txt(1), Txt(1), Empty) >> : pmax \in ProductionTexts }

\* A system in which every kind of component has something to report: an idle
\* controller, two arrays on another, a battery and an inverter.
fullSystem ==
  << Panel(1, "P", Txt(40), Txt(10), Txt(200)),
     Mppt(2, "M2", Empty, Empty, Txt(30), Empty),
     ArrayConfig(3, "A1", Txt(1), Txt(4), Txt(1), Txt(5)),
     ArrayConfig(4, "A2", Txt(1), Txt(5), Txt(1), Txt(5)),
     Mppt(5, "M1", Txt(170), Txt(15), Txt(5), Txt(24)),
     Battery(6, "B", Txt(24), Txt(100), Txt(30), Txt(10)),
     Inverter(7, "I", Txt(50), Txt(40), Txt(2000)) >>

OrderSnapshots == { fullSystem, Reverse(fullSystem) }

Snapshots ==
  CatalogSnapshots \cup VocSnapshots \cup IscSnapshots \cup ClippingSnapshots
    \cup InverterSnapshots \cup ProductionSnapshots \cup OrderSnapshots

\* The README example (4.5 sun hours, 80 %), and a heavy load on a 24 V system.
exampleSystemInputs ==
  [ peakSunHours |-> Rat(9, 2), estimatedDailyUsageWh |-> 1000, batteryDoD |-> 80,
    inverterEfficiency |-> 90, solarPanelEfficiency |-> 80, systemWideVoltage |-> 48 ]

heavySystemInputs ==
  [ peakSunHours |-> RatInt(3), estimatedDailyUsageWh |-> 9000, batteryDoD |-> 50,
    inverterEfficiency |-> 100, solarPanelEfficiency |-> 100, systemWideVoltage |-> 24 ]

highVoltageSystemInputs ==
  [ peakSunHours |-> RatInt(5), estimatedDailyUsageWh |-> 1800, batteryDoD |-> 80,
    inverterEfficiency |-> 90, solarPanelEfficiency |-> 80, systemWideVoltage |-> 399 ]

\* The inputs after -3 is typed into the daily usage field, which stores it.
negativeUsageSystemInputs ==
  [ peakSunHours |-> Rat(9, 2), estimatedDailyUsageWh |-> -3, batteryDoD |-> 80,
    inverterEfficiency |-> 90, solarPanelEfficiency |-> 80, systemWideVoltage |-> 48 ]

InputSet ==
  { defaultSystemInputs, exampleSystemInputs, heavySystemInputs, highVoltageSystemInputs,
    negativeUsageSystemInputs }

EngineInit ==
  /\ components \in Snapshots
  /\ systemInputs \in InputSet
  /\ clock = 0
  /\ stats = NoStats
  /\ messages = <<>>
  /\ phase = "input"

\* The stats memo is computed first ...
Aggregate ==
  /\ phase = "input"
  /\ stats' = ComputeStats(components, systemInputs)
  /\ phase' = "stats"
  /\ UNCHANGED <<components, systemInputs, clock, messages>>

\* ... and the messages memo reads it.
Diagnose ==
  /\ phase = "stats"
  /\ messages' = ComputeMessages(components, stats, systemInputs)
  /\ phase' = "rendered"
  /\ UNCHANGED <<components, systemInputs, clock, stats>>

\* An edit of a panel's pmax on the evaluated snapshot, and the re-render.
RaisedPmax == {Txt(300)}

EditPmax ==
  /\ phase = "rendered"
  /\ \E i \in 1..Len(components) :
       /\ components[i].type = "Individual Solar Panel"
       /\ \E value \in RaisedPmax :
            /\ components[i].properties.pmax # value
            /\ updateComponentProperty(components[i].id, "pmax", value)

\* Both memos invoked once more on the inputs they were last invoked on.
Reinvoke ==
  /\ phase = "rendered"
  /\ stats' = ComputeStats(components, systemInputs)
  /\ messages' = ComputeMessages(components, stats', systemInputs)
  /\ phase' = "reinvoked"
  /\ UNCHANGED <<components, systemInputs, clock>>

EngineNext == Aggregate \/ Diagnose \/ EditPmax \/ Reinvoke

EngineSpec == EngineInit /\ [][EngineNext]_vars

----------------------------------------------------------------------------
(* A session of imports and system input edits.                             *)

Object(hasList, entries, hasInputs, inputs) ==
  [ json |-> "object", hasList |-> hasList, entries |-> entries,
    hasInputs |-> hasInputs, inputs |-> inputs ]

NoInputs == [k \in {} |-> 0]

ImportedPanel == Panel(101, "Stored panel", <<"jsnum", 40>>, Txt(10), <<"null", 0>>)

ImportedArray == ArrayConfig(102, "Stored array", Txt(101), <<"jsnum", 2>>, Txt(2), Empty)

\* The files the exploration imports: text that is not JSON, null, an object
\* whose components are not a list, one without systemInputs, one with a null
\* entry in the list, and two well-formed ones.
Payloads ==
  { [Object(FALSE, <<>>, FALSE, NoInputs) EXCEPT !.json = "text"],
    [Object(FALSE, <<>>, FALSE, NoInputs) EXCEPT !.json = "null"],
    Object(FALSE, <<>>, TRUE, [batteryDoD |-> 50]),
    Object(TRUE, <<ImportedPanel>>, FALSE, NoInputs),
    Object(TRUE, <<ImportedPanel, NullEntry>>, TRUE, [batteryDoD |-> 50]),
    Object(TRUE, <<ImportedPanel, ImportedArray>>, TRUE, [batteryDoD |-> 50]),
    Object(TRUE, <<>>, TRUE, [batteryDoD |-> 150, systemWideVoltage |-> 5]) }

TypedTexts == {Empty, Txt(-3), Txt(150)}

ImportNext ==
  \/ \E payload \in Payloads : importData(payload)
  \/ \E key \in DOMAIN defaultSystemInputs : \E text \in TypedTexts :
       onSystemInputChange(key, text)
  \/ \E now \in PacedTimes : addComponents("Individual Solar Panel", 1, now, NoFraction)

ImportSpec == Init /\ [][ImportNext]_vars

HostTypes == {componentTypeOptions[3], componentTypeOptions[4]}

HostInputKeys == {"batteryDoD", "systemWideVoltage"}

HostTexts == {Txt(60)}

\* Every operation of the host: add, update property, rename, remove, clone,
\* import and system input edit.
HostNext ==
  \/ \E type \in HostTypes : \E now \in PacedTimes : addComponents(type, 1, now, NoFraction)
  \/ EditProperty
  \/ Len(components) > 0 /\ updateComponentName(components[1].id, "Roof")
  \/ \E id \in Ids(components) : removeComponent(id)
  \/ \E id \in Ids(components) : \E now \in PacedTimes : cloneComponent(id, now, 0)
  \/ \E payload \in Payloads : importData(payload)
  \/ \E key \in HostInputKeys : \E text \in HostTexts : onSystemInputChange(key, text)

HostSpec == Init /\ [][HostNext]_vars

----------------------------------------------------------------------------
(* Properties *)

Rendered == phase = "rendered"

KeyAt(i) == messages[i].text.key

LevelAt(i) == messages[i].level

\* How many messages carry the template key.
CountKey(key) == Cardinality({ i \in 1..Len(messages) : KeyAt(i) = key })

ArrayIndexes == { i \in 1..Len(components) : components[i].type = "Solar Array Configuration" }

PanelIds ==
  { components[i].id : i \in { j \in 1..Len(components) :
                                 components[j].type = "Individual Solar Panel" } }

MpptIds ==
  { components[i].id : i \in { j \in 1..Len(components) :
                                 components[j].type = "MPPT Charge Controller" } }

\* C1: with no component, the diagnostics are exactly the 'add components'
\* info message followed by the two fixed general notes, and no summary.
C1_EmptySystemMessages ==
  (Rendered /\ components = <<>>) =>
    /\ Len(messages) = 3
    /\ KeyAt(1) = "AddComponents" /\ LevelAt(1) = "info"
    /\ KeyAt(2) = "IdealWiring" /\ LevelAt(2) = "info"
    /\ KeyAt(3) = "ElectricalCodes" /\ LevelAt(3) = "info-safety"

\* C2: after any sequence of add, update-property, rename, clone and remove,
\* every array's selectedPanelId is empty or the id of an existing panel and
\* its assignedMpptId is empty or the id of an existing MPPT controller.
C2_ReferencesResolve ==
  \A i \in ArrayIndexes :
    /\ \/ components[i].properties.selectedPanelId = Empty
       \/ \E id \in PanelIds : components[i].properties.selectedPanelId = String(id)
    /\ \/ components[i].properties.assignedMpptId = Empty
       \/ \E id \in MpptIds : components[i].properties.assignedMpptId = String(id)

\* The arrays whose assignedMpptId is empty or names no existing controller.
ArraysWithoutController ==
  { i \in ArrayIndexes :
      \A id \in MpptIds : components[i].properties.assignedMpptId # String(id) }

\* C3: an array whose assignedMpptId names no existing MPPT controller is
\* counted among the unassigned arrays: the unassigned-arrays message (warn if
\* a controller exists, else info) is emitted for it as for an empty reference.
C3_DanglingCountsAsUnassigned ==
  (Rendered /\ ArraysWithoutController # {}) =>
    IF MpptIds # {}
    THEN \E i \in 1..Len(messages) :
           /\ KeyAt(i) = "ArraysNotAssigned" /\ LevelAt(i) = "warn"
           /\ messages[i].text.n = Cardinality(ArraysWithoutController)
    ELSE \E i \in 1..Len(messages) :
           /\ KeyAt(i) = "ArraysButNoMppt" /\ LevelAt(i) = "info"
           /\ messages[i].text.n = Cardinality(ArraysWithoutController)

MpptIndexes == { i \in 1..Len(components) : components[i].type = "MPPT Charge Controller" }

PanelIndexes == { i \in 1..Len(components) : components[i].type = "Individual Solar Panel" }

\* The panels an array's selectedPanelId resolves to (ids are unique in a snapshot).
PanelsOfArray(i) ==
  { k \in PanelIndexes : components[i].properties.selectedPanelId = String(components[k].id) }

\* The (array, controller, panel) triples the Voc rule applies to: the array is
\* assigned to the controller and resolved to the panel, and voc, panelsInSeries
\* and maxInputVoltage all parse.
VocTriples ==
  { t \in ArrayIndexes \X MpptIndexes \X PanelIndexes :
      /\ components[t[1]].properties.assignedMpptId = String(components[t[2]].id)
      /\ t[3] \in PanelsOfArray(t[1])
      /\ components[t[3]].properties.voc[1] \in {"num", "sfx"}
      /\ components[t[1]].properties.panelsInSeries[1] \in {"num", "sfx"}
      /\ components[t[2]].properties.maxInputVoltage[1] \in {"num", "sfx"} }

TripleVoc(t) ==
  components[t[3]].properties.voc[2] * components[t[1]].properties.panelsInSeries[2]

TripleLimit(t) == components[t[2]].properties.maxInputVoltage[2]

\* How many messages with the template key name this array and this controller.
VocCount(t, key) ==
  Cardinality({ i \in 1..Len(messages) :
                  /\ KeyAt(i) = key
                  /\ messages[i].text.who = <<components[t[1]].name, components[t[2]].name>> })

RoundsUp110 ==
  { 50, 90, 100, 110, 170, 180, 190, 200, 210, 220, 230, 330, 340, 350, 360, 370, 380, 390 }

C5_VocCascade ==
  Rendered =>
    \A t \in VocTriples :
      LET x == TripleVoc(t)
          m == TripleLimit(t)
          outcome == IF x > m THEN "VocExceeds"
                     ELSE IF 11 * x > 10 * m THEN "VocBelowMinMargin"
                     ELSE IF 12 * x > 10 * m THEN "VocBelowIdealMargin"
                     ELSE "none"
      IN  \A key \in {"VocExceeds", "VocBelowMinMargin", "VocBelowIdealMargin"} :
            VocCount(t, key) = IF key = outcome THEN 1 ELSE 0

SummaryKeys == {"SummaryErrors", "SummaryWarnings", "SummaryCompatible"}

\* C6: when at least one component exists, the last message is the one summary,
\* of level error if an earlier message has level error, else warn if an earlier
\* message has a level starting with 'warn', else info ('appears compatible');
\* when no component exists there is no summary.
C6_FinalRollup ==
  Rendered =>
    LET n == Len(messages)
        summaries == { i \in 1..n : KeyAt(i) \in SummaryKeys }
        earlier == { LevelAt(i) : i \in 1..(n - 1) }
        expected ==
          IF "error" \in earlier THEN <<"error", "SummaryErrors">>
          ELSE IF earlier \cap {"warn", "warn-safety", "warn-sizing", "warn-c-rate"} # {}
               THEN <<"warn", "SummaryWarnings">>
               ELSE <<"info", "SummaryCompatible">>
    IN  IF Len(components) = 0 THEN summaries = {}
        ELSE /\ summaries = {n}
             /\ <<LevelAt(n), KeyAt(n)>> = expected

\* C6 witness: a rendered, non-empty system whose only warning is a sizing warning.
C6_Witness ==
  /\ Rendered
  /\ Len(components) > 0
  /\ KeyAt(Len(messages)) = "SummaryWarnings"
  /\ \A i \in 1..(Len(messages) - 1) : LevelAt(i) \notin {"error", "warn"}

\* The arrays whose selectedPanelId is empty or names no existing panel.
IsUnresolved(c) ==
  /\ c.type = "Solar Array Configuration"
  /\ \A k \in PanelIndexes : c.properties.selectedPanelId # String(components[k].id)

ResolvedOnly == SelectSeq(components, LAMBDA c : ~IsUnresolved(c))

ElectricalKeys ==
  { "VocExceeds", "VocBelowMinMargin", "VocBelowIdealMargin", "IscExceeds",
    "IscOver90", "SignificantClipping", "MinorClipping" }

Electrical(msgs) == SelectSeq(msgs, LAMBDA m : m.text.key \in ElectricalKeys)

Production == stats.estimatedDailySolarProductionWh

\* A panel's pmax was raised from one number to a larger one, all else fixed.
PmaxRaised ==
  \E i \in PanelIndexes :
    /\ Len(components') = Len(components)
    /\ components[i].properties.pmax[1] \in {"num", "sfx"}
    /\ components'[i].properties.pmax[1] \in {"num", "sfx"}
    /\ components'[i].properties.pmax[2] > components[i].properties.pmax[2]
    /\ components' = [components EXCEPT ![i].properties.pmax = components'[i].properties.pmax]

\* C8: raising the pmax of a single panel, every other component field and
\* every system input held fixed, never lowers totalSolarPower or
\* estimatedDailySolarProductionWh.
C8_PmaxMonotone ==
  [][ (Rendered /\ Rendered' /\ systemInputs' = systemInputs /\ PmaxRaised) =>
        /\ stats'.totalSolarPower >= stats.totalSolarPower
        /\ ~RatLT(Production', Production) ]_vars

RECURSIVE SumOver(_, _)
\* The sum of f over a finite set of indexes.
SumOver(set, f) ==
  IF set = {} THEN 0
  ELSE LET i == CHOOSE j \in set : TRUE IN f[i] + SumOver(set \ {i}, f)

IsNumeric(text) == text[1] \in {"num", "sfx"}

\* pmax x panelsInSeries x numberOfStrings of an array that resolves to a panel
\* with all three parsable, else 0.
ExpectedArrayPower ==
  [ i \in ArrayIndexes |->
      LET hits == { k \in PanelsOfArray(i) :
                      /\ IsNumeric(components[k].properties.pmax)
                      /\ IsNumeric(components[i].properties.panelsInSeries)
                      /\ IsNumeric(components[i].properties.numberOfStrings) }
      IN  IF hits = {} THEN 0
          ELSE LET k == CHOOSE h \in hits : TRUE
               IN  components[k].properties.pmax[2]
                     * components[i].properties.panelsInSeries[2]
                     * components[i].properties.numberOfStrings[2] ]

\* C9: totalSolarPower is the sum of pmax x panelsInSeries x numberOfStrings
\* over the arrays that resolve to a panel with all three parsable, assigned to
\* a controller or not; estimatedDailySolarProductionWh is totalSolarPower x
\* peakSunHours x solarPanelEfficiency / 100; one 200 W panel in a 2 x 2 array
\* gives 800 W and, at 4.5 sun hours and 80 %, 2880 Wh.
C9_SolarPowerAndProduction ==
  Rendered =>
    /\ stats.totalSolarPower = SumOver(ArrayIndexes, ExpectedArrayPower)
    /\ Production[1] * systemInputs.peakSunHours[2] * 100 =
         Production[2] * stats.totalSolarPower * systemInputs.peakSunHours[1]
           * systemInputs.solarPanelEfficiency
    /\ components = <<Catalog[1], Catalog[3]>> =>
         /\ stats.totalSolarPower = 800
         /\ systemInputs = exampleSystemInputs => Production = <<2880, 1>>

\* C9 witness: the example is rendered.
C9_Witness ==
  /\ Rendered
  /\ components = <<Catalog[1], Catalog[3]>>
  /\ systemInputs = exampleSystemInputs
  /\ Production = <<2880, 1>>

BatteryIndexes == { i \in 1..Len(components) : components[i].type = "Battery" }

\* The batteries with a parsable nominalVoltage.
VoltageIndexes ==
  { i \in BatteryIndexes : IsNumeric(components[i].properties.nominalVoltage) }

DistinctVoltages == { components[i].properties.nominalVoltage[2] : i \in VoltageIndexes }

\* C10: voltageConsistencyIssue is true exactly when the batteries have more
\* than one distinct parsable nominalVoltage; systemNominalVoltage is 'N/A' when
\* no battery has one and otherwise that of the first battery, in stored order,
\* that has one; the diagnostics hold exactly one mixed-voltage error when the
\* flag is true and none when it is false.
C10_BatteryVoltageConsistency ==
  Rendered =>
    /\ stats.voltageConsistencyIssue = (Cardinality(DistinctVoltages) > 1)
    /\ IF VoltageIndexes = {} THEN stats.systemNominalVoltage = <<"N/A", 0>>
       ELSE LET first == CHOOSE i \in VoltageIndexes : \A j \in VoltageIndexes : i <= j
            IN  stats.systemNominalVoltage =
                  <<"num", components[first].properties.nominalVoltage[2]>>
    /\ CountKey("MixedVoltages") = IF stats.voltageConsistencyIssue THEN 1 ELSE 0
    /\ \A i \in 1..Len(messages) : KeyAt(i) = "MixedVoltages" => LevelAt(i) = "error"

\* C10 witness: batteries of 12 V then 24 V: flag true, nominal 12, one error.
C10_Witness ==
  /\ Rendered
  /\ components = <<Catalog[10], Catalog[11]>>
  /\ stats.voltageConsistencyIssue
  /\ stats.systemNominalVoltage = <<"num", 12>>
  /\ CountKey("MixedVoltages") = 1

\* C14: after any sequence of add, clone and remove operations no two
\* components of the set share an id.
C14_IdsUnique == Cardinality(Ids(components)) = Len(components)

\* The arrays whose assignedMpptId is empty.
UnassignedIndexes ==
  { i \in ArrayIndexes : components[i].properties.assignedMpptId = <<"empty", 0>> }

UnassignedKeys == {"ArraysNotAssigned", "ArraysButNoMppt"}

\* C11: when at least one array has no assigned MPPT exactly one
\* unassigned-arrays message is emitted, however many arrays are unassigned:
\* a warn if at least one MPPT exists and an info (power path undefined) if
\* none exists; when every array is assigned no such message is emitted.
C11_OneUnassignedMessage ==
  Rendered =>
    LET hits == { i \in 1..Len(messages) : KeyAt(i) \in UnassignedKeys }
    IN  IF UnassignedIndexes = {} THEN hits = {}
        ELSE /\ Cardinality(hits) = 1
             /\ \A i \in hits :
                  <<LevelAt(i), KeyAt(i)>> =
                    IF MpptIndexes # {} THEN <<"warn", "ArraysNotAssigned">>
                    ELSE <<"info", "ArraysButNoMppt">>

\* C11 witness: two unassigned arrays beside an MPPT, one warning.
C11_Witness ==
  /\ Rendered
  /\ Cardinality(UnassignedIndexes) = 2
  /\ MpptIndexes # {}
  /\ CountKey("ArraysNotAssigned") = 1
  /\ CountKey("ArraysButNoMppt") = 0

\* The step is a run of cloneComponent(id).
IsCloneOf(id) ==
  \E now \in clock..MaxClock : \E random \in 0..(Fractions - 1) : cloneComponent(id, now, random)

\* The indexes of the arrays of cs assigned to the component with the id.
AssignedIndexes(cs, id) ==
  { i \in 1..Len(cs) : /\ cs[i].type = "Solar Array Configuration"
                        /\ cs[i].properties.assignedMpptId = <<"num", id>> }

Malformed(payload) ==
  \/ payload.json # "object"
  \/ ~payload.hasList
  \/ ~payload.hasInputs
  \/ \E i \in 1..Len(payload.entries) : payload.entries[i].type = "null"

\* C13: an import of a malformed file leaves the component set and the system
\* inputs exactly as they were, and an import never applies only one of the
\* two: what changes is the whole file, components and system inputs.
C13_FailedImportChangesNothing ==
  [][ \A payload \in Payloads :
        importData(payload) =>
          IF Malformed(payload)
          THEN components' = components /\ systemInputs' = systemInputs
          ELSE /\ Len(components') = Len(payload.entries)
               /\ \A i \in 1..Len(payload.entries) :
                    /\ components'[i].id = payload.entries[i].id
                    /\ components'[i].name = payload.entries[i].name
               /\ \A k \in DOMAIN payload.inputs \ {"peakSunHours"} :
                    systemInputs'[k] = payload.inputs[k]
               /\ \A k \in DOMAIN systemInputs \ DOMAIN payload.inputs :
                    systemInputs'[k] = defaultSystemInputs[k] ]_vars

\* C13 witness: a session that added a panel and edited an input, and an
\* import has since replaced both the components and the system inputs.
C13_Witness ==
  /\ Rendered
  /\ Len(components) = 2
  /\ components[2].id = 102
  /\ components[1].properties.voc = <<"num", 40>>
  /\ systemInputs.batteryDoD = 50
  /\ clock > 0

\* C15: after any sequence of system input edits and imports the inputs stay
\* in their documented ranges: peakSunHours >= 0, estimatedDailyUsageWh >= 0,
\* batteryDoD, inverterEfficiency and solarPanelEfficiency within 1..100 and
\* systemWideVoltage >= 12.
C15_InputsInRange ==
  /\ systemInputs.peakSunHours[1] >= 0
  /\ systemInputs.estimatedDailyUsageWh >= 0
  /\ \A k \in {"batteryDoD", "inverterEfficiency", "solarPanelEfficiency"} :
       systemInputs[k] >= 1 /\ systemInputs[k] <= 100
  /\ systemInputs.systemWideVoltage >= 12

InverterIndexes == { i \in 1..Len(components) : components[i].type = "Inverter" }

\* (panelsInSeries - 1) x numberOfStrings of an array with panelsInSeries >= 2
\* and numberOfStrings >= 1, else 0.
ExpectedInterconnect ==
  [ i \in ArrayIndexes |->
      LET inSeries == components[i].properties.panelsInSeries
          strings == components[i].properties.numberOfStrings
      IN  IF IsNumeric(inSeries) /\ IsNumeric(strings) /\ inSeries[2] >= 2 /\ strings[2] >= 1
          THEN (inSeries[2] - 1) * strings[2] ELSE 0 ]

\* 2 x numberOfStrings of an array with numberOfStrings >= 1, else 0.
ExpectedToCharger ==
  [ i \in ArrayIndexes |->
      LET strings == components[i].properties.numberOfStrings
      IN  IF IsNumeric(strings) /\ strings[2] >= 1 THEN 2 * strings[2] ELSE 0 ]

\* C17: totalEstimatedCables is the sum of the five cable counts, where
\* panelInterconnectCables sums (panelsInSeries - 1) x numberOfStrings over the
\* arrays with panelsInSeries >= 2 and numberOfStrings >= 1,
\* arrayToChargerCables sums 2 x numberOfStrings over the arrays with
\* numberOfStrings >= 1, chargerToBatteryCables is 2 x the MPPT count,
\* batteryInterconnectCables is 2 x max(0, battery count - 1) and
\* batteryToInverterCables is 2 x the inverter count.
C17_CableTotal ==
  Rendered =>
    LET batteryCount == Cardinality(BatteryIndexes)
    IN  /\ stats.panelInterconnectCables = SumOver(ArrayIndexes, ExpectedInterconnect)
        /\ stats.arrayToChargerCables = SumOver(ArrayIndexes, ExpectedToCharger)
        /\ stats.chargerToBatteryCables = 2 * Cardinality(MpptIndexes)
        /\ stats.batteryInterconnectCables =
             2 * (IF batteryCount > 1 THEN batteryCount - 1 ELSE 0)
        /\ stats.batteryToInverterCables = 2 * Cardinality(InverterIndexes)
        /\ statsWithCableTotal(stats).totalEstimatedCables =
             SumOver(ArrayIndexes, ExpectedInterconnect)
               + SumOver(ArrayIndexes, ExpectedToCharger)
               + 2 * Cardinality(MpptIndexes)
               + 2 * (IF batteryCount > 1 THEN batteryCount - 1 ELSE 0)
               + 2 * Cardinality(InverterIndexes)

\* C17 witness: two batteries, an array in series and one whose counts are
\* below the limits, all five counts added up.
C17_Witness ==
  /\ Rendered
  /\ Cardinality(BatteryIndexes) = 2
  /\ \E i \in ArrayIndexes : ExpectedInterconnect[i] > 0
  /\ \E i \in ArrayIndexes : ExpectedInterconnect[i] = 0
  /\ statsWithCableTotal(stats).totalEstimatedCables > stats.batteryInterconnectCables

\* The components after removeComponent(id) of an array, addComponents of one
\* array configuration at the reading now, and the two edits that give the new
\* array the counts of the removed one.
ReAdded(id, now) ==
  LET old == components[FindComponent(components, id)]
      removed == RemoveFrom(components, id)
      new == NewComponent(removed, "Solar Array Configuration", now, 0, 0)
      added == removed \o <<new>>
  IN  SetProperty(SetProperty(added, new.id, "panelsInSeries", old.properties.panelsInSeries),
                  new.id, "numberOfStrings", old.properties.numberOfStrings)

TotalCables(cs) == statsWithCableTotal(ComputeStats(cs, systemInputs)).totalEstimatedCables

C19_GeneralNotesPlacement ==
  Rendered =>
    LET n == Len(messages)
        k == IF Len(components) = 0 THEN n - 1 ELSE n - 2
    IN  /\ k >= 1
        /\ CountKey("IdealWiring") = 1
        /\ CountKey("ElectricalCodes") = 1
        /\ <<LevelAt(k), KeyAt(k)>> = <<"info", "IdealWiring">>
        /\ <<LevelAt(k + 1), KeyAt(k + 1)>> = <<"info-safety", "ElectricalCodes">>
        /\ \A i \in (k + 2)..n : KeyAt(i) \in SummaryKeys
        /\ \A i \in 1..(k - 1) : KeyAt(i) \notin SummaryKeys

\* C19 witness: a system with rule messages before the notes and a summary after.
C19_Witness ==
  /\ Rendered
  /\ Len(messages) >= 6
  /\ KeyAt(Len(messages) - 2) = "IdealWiring"
  /\ KeyAt(Len(messages)) = "SummaryErrors"

\* The notes close the list of an empty system.
C19_EmptyCase ==
  /\ Rendered
  /\ Len(components) = 0
  /\ KeyAt(Len(messages)) = "ElectricalCodes"

\* The sum of the parsable maxOutputCurrent of all MPPT controllers.
ExpectedOutputCurrent ==
  SumOver(MpptIndexes,
          [ i \in MpptIndexes |->
              IF IsNumeric(components[i].properties.maxOutputCurrent)
              THEN components[i].properties.maxOutputCurrent[2] ELSE 0 ])

\* The messages with the key about the component with the name.
CountKeyFor(key, name) ==
  Cardinality({ i \in 1..Len(messages) : KeyAt(i) = key /\ messages[i].text.who = <<name>> })

\* C20: for each battery whose maxChargeCurrent is present, the total MPPT
\* output current gives an error when it exceeds the battery's
\* maxChargeCurrent, a warn-c-rate when it is above 90 % and not above 100 % of
\* it, and nothing otherwise, whatever the battery's other fields such as
\* capacityAh hold.
C20_ChargeCurrentCheck ==
  Rendered =>
    \A i \in BatteryIndexes :
      LET maxCharge == components[i].properties.maxChargeCurrent
          name == components[i].name
          total == ExpectedOutputCurrent
      IN  IsNumeric(maxCharge) =>
            /\ CountKeyFor("ChargeExceeds", name) =
                 IF total > maxCharge[2] THEN 1 ELSE 0
            /\ CountKeyFor("ChargeNearLimit", name) =
                 IF total <= maxCharge[2] /\ 10 * total > 9 * maxCharge[2] THEN 1 ELSE 0

\* isc x numberOfStrings of an array that resolves to a panel, both parsable.
ExpectedArrayIsc ==
  [ i \in ArrayIndexes |->
      LET hits == { k \in PanelsOfArray(i) :
                      /\ IsNumeric(components[k].properties.isc)
                      /\ IsNumeric(components[i].properties.numberOfStrings) }
      IN  IF hits = {} THEN 0
          ELSE LET k == CHOOSE h \in hits : TRUE
               IN  components[k].properties.isc[2]
                     * components[i].properties.numberOfStrings[2] ]

\* The arrays assigned to the controller at index m.
ArraysOn(m) ==
  { i \in ArrayIndexes :
      components[i].properties.assignedMpptId = <<"num", components[m].id>> }

\* C21: for each MPPT whose maxInputCurrent is present, an error is emitted
\* when the aggregate Isc of its assigned, resolved arrays exceeds
\* maxInputCurrent, otherwise a warn-sizing when it is above 90 % of it,
\* otherwise no Isc message.
C21_IscCheckWhenPresent ==
  Rendered =>
    \A m \in MpptIndexes :
      LET maxI == components[m].properties.maxInputCurrent
          agg == SumOver(ArraysOn(m), ExpectedArrayIsc)
          name == components[m].name
      IN  IsNumeric(maxI) =>
            /\ CountKeyFor("IscExceeds", name) = IF agg > maxI[2] THEN 1 ELSE 0
            /\ CountKeyFor("IscOver90", name) =
                 IF agg <= maxI[2] /\ 10 * agg > 9 * maxI[2] THEN 1 ELSE 0

\* C21 (amended): the same for each MPPT whose maxInputCurrent is present and
\* greater than 0; an MPPT whose maxInputCurrent is absent, 0 or negative gets
\* no Isc message.
C21_IscCheckWhenPositive ==
  Rendered =>
    \A m \in MpptIndexes :
      LET maxI == components[m].properties.maxInputCurrent
          agg == SumOver(ArraysOn(m), ExpectedArrayIsc)
          name == components[m].name
          checked == IsNumeric(maxI) /\ maxI[2] > 0
      IN  /\ CountKeyFor("IscExceeds", name) = IF checked /\ agg > maxI[2] THEN 1 ELSE 0
          /\ CountKeyFor("IscOver90", name) =
               IF checked /\ agg <= maxI[2] /\ 10 * agg > 9 * maxI[2] THEN 1 ELSE 0

\* C21 witness: two resolved arrays on one MPPT whose aggregate Isc equals the
\* limit, reported as above 90 % and not as exceeding.
C21_Witness ==
  /\ Rendered
  /\ \E m \in MpptIndexes :
       /\ Cardinality(ArraysOn(m)) = 2
       /\ SumOver(ArraysOn(m), ExpectedArrayIsc) = components[m].properties.maxInputCurrent[2]
       /\ CountKeyFor("IscOver90", components[m].name) = 1
       /\ CountKeyFor("IscExceeds", components[m].name) = 0

\* C22: for each MPPT with maxOutputCurrent > 0 and nominalBatteryVoltage > 0,
\* with capacity their product and aggregatePmax the sum of pmax x
\* panelsInSeries x numberOfStrings over its assigned, resolved arrays, a
\* warn-sizing is emitted when aggregatePmax > 1.25 x capacity, an info when
\* capacity < aggregatePmax <= 1.25 x capacity, nothing when aggregatePmax <=
\* capacity; no clipping message when either field is absent or not positive.
C22_ClippingCheck ==
  Rendered =>
    \A m \in MpptIndexes :
      LET maxOutI == components[m].properties.maxOutputCurrent
          battV == components[m].properties.nominalBatteryVoltage
          checked == /\ IsNumeric(maxOutI) /\ maxOutI[2] > 0
                     /\ IsNumeric(battV) /\ battV[2] > 0
          capacity == maxOutI[2] * battV[2]
          agg == SumOver(ArraysOn(m), ExpectedArrayPower)
          name == components[m].name
      IN  /\ CountKeyFor("SignificantClipping", name) =
               IF checked /\ 4 * agg > 5 * capacity THEN 1 ELSE 0
          /\ CountKeyFor("MinorClipping", name) =
               IF checked /\ agg > capacity /\ 4 * agg <= 5 * capacity THEN 1 ELSE 0

\* C22 witness: an aggregate of exactly 1.25 x capacity, reported as minor.
C22_Witness ==
  /\ Rendered
  /\ \E m \in MpptIndexes :
       /\ components[m].properties.maxOutputCurrent = <<"num", 10>>
       /\ components[m].properties.nominalBatteryVoltage = <<"num", 12>>
       /\ SumOver(ArraysOn(m), ExpectedArrayPower) = 150
       /\ CountKeyFor("MinorClipping", components[m].name) = 1
       /\ CountKeyFor("SignificantClipping", components[m].name) = 0

\* The level of every message with the key is the level given.
LevelOfKey(key, level) ==
  \A i \in 1..Len(messages) : KeyAt(i) = key => LevelAt(i) = level

\* C23: for each inverter systemWideVoltage is compared with both limits
\* independently: with inputVoltageMin present an error if it is below the
\* minimum, else a warn-sizing if it is below 1.05 x the minimum; with
\* inputVoltageMax present an error if it is above the maximum, else a
\* warn-sizing if it is above 0.95 x the maximum; at most one message about
\* each limit, and an absent limit suppresses only its own check.
C23_InverterVoltageRange ==
  Rendered =>
    /\ LevelOfKey("BelowInverterMin", "error") /\ LevelOfKey("AboveInverterMax", "error")
    /\ LevelOfKey("NearInverterMin", "warn-sizing")
    /\ LevelOfKey("NearInverterMax", "warn-sizing")
    /\ \A v \in InverterIndexes :
         LET vMin == components[v].properties.inputVoltageMin
             vMax == components[v].properties.inputVoltageMax
             sysV == systemInputs.systemWideVoltage
             name == components[v].name
         IN  /\ CountKeyFor("BelowInverterMin", name) =
                  IF IsNumeric(vMin) /\ sysV < vMin[2] THEN 1 ELSE 0
             /\ CountKeyFor("NearInverterMin", name) =
                  IF IsNumeric(vMin) /\ sysV >= vMin[2] /\ 100 * sysV < 105 * vMin[2]
                  THEN 1 ELSE 0
             /\ CountKeyFor("AboveInverterMax", name) =
                  IF IsNumeric(vMax) /\ sysV > vMax[2] THEN 1 ELSE 0
             /\ CountKeyFor("NearInverterMax", name) =
                  IF IsNumeric(vMax) /\ sysV <= vMax[2] /\ 100 * sysV > 95 * vMax[2]
                  THEN 1 ELSE 0

\* C23 witness: a system voltage of exactly 1.05 x the minimum, silent, and
\* above the maximum, an error, on the same inverter.
C23_Witness ==
  /\ Rendered
  /\ systemInputs.systemWideVoltage = 399
  /\ \E v \in InverterIndexes :
       /\ components[v].properties.inputVoltageMin = <<"num", 380>>
       /\ components[v].properties.inputVoltageMax = <<"num", 398>>
       /\ CountKeyFor("NearInverterMin", components[v].name) = 0
       /\ CountKeyFor("AboveInverterMax", components[v].name) = 1

Ratio == stats.productionToConsumptionRatioPercentage

\* The adjusted need as a fraction: usage x 100 / inverterEfficiency, or 0
\* when the usage is not positive.
AdjustedNeed ==
  IF systemInputs.estimatedDailyUsageWh > 0
  THEN <<systemInputs.estimatedDailyUsageWh * 100, systemInputs.inverterEfficiency>>
  ELSE <<0, 1>>

C24_NotApplicableCase ==
  /\ Rendered
  /\ systemInputs.estimatedDailyUsageWh = 0
  /\ Production[1] > 0
  /\ Ratio.kind = "N/A"
  /\ CountKey("ProductionDeficit") + CountKey("ProductionSurplus") = 0

\* The stored position of the component with the name (names differ within a
\* snapshot of the engine).
NameIndex(name) == CHOOSE i \in 1..Len(components) : components[i].name = name

\* The place of a rule in the execution order: its stage and its step within
\* the body run for one component.
RuleStage ==
  [ AddComponents |-> <<1, 0>>, MixedVoltages |-> <<2, 0>>,
    ArraysNotAssigned |-> <<3, 0>>, ArraysButNoMppt |-> <<3, 0>>,
    MpptNoArrays |-> <<4, 1>>,
    VocExceeds |-> <<4, 2>>, VocBelowMinMargin |-> <<4, 2>>, VocBelowIdealMargin |-> <<4, 2>>,
    IscExceeds |-> <<4, 3>>, IscOver90 |-> <<4, 3>>,
    SignificantClipping |-> <<4, 4>>, MinorClipping |-> <<4, 4>>,
    ChargeExceeds |-> <<5, 1>>, ChargeNearLimit |-> <<5, 1>>,
    DischargeExceeds |-> <<5, 2>>, DischargeNearLimit |-> <<5, 2>>,
    BelowInverterMin |-> <<6, 1>>, NearInverterMin |-> <<6, 1>>,
    AboveInverterMax |-> <<6, 2>>, NearInverterMax |-> <<6, 2>>,
    NoValidPmax |-> <<7, 1>>, DailyUsageZero |-> <<7, 2>>, LowAutonomy |-> <<7, 3>>,
    ProductionDeficit |-> <<7, 4>>, ProductionSurplus |-> <<7, 4>>,
    IdealWiring |-> <<8, 1>>, ElectricalCodes |-> <<8, 2>>,
    SummaryErrors |-> <<9, 0>>, SummaryWarnings |-> <<9, 0>>, SummaryCompatible |-> <<9, 0>> ]

\* The place of the i-th message: stage, stored position of the component the
\* stage iterates over, step, and stored position of the array of a Voc message.
Place(i) ==
  LET who == messages[i].text.who
      rule == RuleStage[KeyAt(i)]
      owner == IF who = <<>> THEN 0 ELSE NameIndex(who[Len(who)])
      step == IF rule[1] = 7 \/ rule[1] = 8 THEN 0 ELSE rule[2]
      inner == IF Len(who) = 2 THEN NameIndex(who[1])
               ELSE IF rule[1] = 7 \/ rule[1] = 8 THEN rule[2] ELSE 0
  IN  <<rule[1], owner, step, inner>>

\* Lexicographic order on places.
Before(p, q) ==
  \E k \in 1..4 : p[k] < q[k] /\ \A h \in 1..(k - 1) : p[h] = q[h]

\* C25: message order follows rule-execution order, never severity: the
\* nudge, the mixed-voltage error, the unassigned-arrays message, the MPPT
\* messages grouped per MPPT in stored order (no-arrays warning, per-array Voc
\* messages in array order, Isc, clipping), the battery messages per battery
\* in stored order (charge before discharge), the inverter messages, the
\* production, usage, autonomy and ratio messages, the two fixed notes, the
\* rollup.
C25_RuleExecutionOrder ==
  Rendered => \A i \in 1..(Len(messages) - 1) : Before(Place(i), Place(i + 1))

\* C25 witness: the full system in reverse stored order: controller M1 before
\* M2 and array A2 before A1, a warn-safety after one error and before eight.
C25_Witness ==
  /\ Rendered
  /\ components = Reverse(fullSystem)
  /\ systemInputs = exampleSystemInputs
  /\ [i \in 1..Len(messages) |-> <<LevelAt(i), KeyAt(i), messages[i].text.who>>] =
       << <<"error", "VocExceeds", <<"A2", "M1">> >>,
          <<"warn-safety", "VocBelowMinMargin", <<"A1", "M1">> >>,
          <<"error", "IscExceeds", <<"M1">> >>,
          <<"warn-sizing", "SignificantClipping", <<"M1">> >>,
          <<"warn", "MpptNoArrays", <<"M2">> >>,
          <<"error", "ChargeExceeds", <<"B">> >>,
          <<"error", "DischargeExceeds", <<"B">> >>,
          <<"error", "BelowInverterMin", <<"I">> >>,
          <<"error", "AboveInverterMax", <<"I">> >>,
          <<"info", "ProductionSurplus", <<>> >>,
          <<"info", "IdealWiring", <<>> >>,
          <<"info-safety", "ElectricalCodes", <<>> >>,
          <<"error", "SummaryErrors", <<>> >> >>

\* C26: after every host operation (add, update property, rename, remove,
\* clone, import, system input edit) the statistics and diagnostics presented
\* are exactly what the aggregator and the diagnostics engine compute from the
\* current components and system inputs: no value memoized from an earlier
\* snapshot survives, the charger-to-battery cable count included.
C26_NoStaleResults ==
  /\ stats = ComputeStats(components, systemInputs)
  /\ statsWithCableTotal(stats) = statsWithCableTotal(ComputeStats(components, systemInputs))
  /\ messages = ComputeMessages(components, ComputeStats(components, systemInputs),
                                systemInputs)
  /\ stats.chargerToBatteryCables = 2 * Cardinality(MpptIndexes)
  /\ stats.batteryToInverterCables = 2 * Cardinality(InverterIndexes)

\* C26 witness: an MPPT added after a battery and an edit of a system input
\* outside the dependency list of the messages, with the cable count current.
C26_Witness ==
  /\ Rendered
  /\ Len(components) = 2
  /\ components[1].type = "Battery"
  /\ components[2].type = "MPPT Charge Controller"
  /\ systemInputs.batteryDoD = 60
  /\ stats.chargerToBatteryCables = 2
  /\ statsWithCableTotal(stats).totalEstimatedCables = 2

\* C27: whenever at least one component exists and estimatedDailyUsageWh is 0
\* the diagnostics contain the 'Daily usage is 0' warn message and the rollup
\* is of level error or warn, never 'appears compatible'; the 'appears
\* compatible' summary is produced only when estimatedDailyUsageWh > 0 and the
\* production/consumption ratio is at least 80 %.
C27_CompatibleNeedsUsage ==
  Rendered =>
    /\ (Len(components) >= 1 /\ systemInputs.estimatedDailyUsageWh = 0) =>
         /\ CountKey("DailyUsageZero") = 1
         /\ LevelOfKey("DailyUsageZero", "warn")
         /\ LevelAt(Len(messages)) \in {"error", "warn"}
         /\ CountKey("SummaryCompatible") = 0
    /\ CountKey("SummaryCompatible") > 0 =>
         /\ systemInputs.estimatedDailyUsageWh > 0
         /\ Ratio.kind = "number"
         /\ Ratio.value[1] >= 80 * Ratio.value[2]

\* What holds of the code: the usage of an 'appears compatible' system is not
\* 0, and when it is positive the ratio is a number of at least 80.
C27_CompatibleNeedsNonZeroUsage ==
  Rendered =>
    /\ (Len(components) >= 1 /\ systemInputs.estimatedDailyUsageWh = 0) =>
         /\ CountKey("DailyUsageZero") = 1
         /\ LevelAt(Len(messages)) \in {"error", "warn"}
    /\ CountKey("SummaryCompatible") > 0 =>
         /\ systemInputs.estimatedDailyUsageWh # 0
         /\ systemInputs.estimatedDailyUsageWh > 0 =>
              Ratio.kind = "number" /\ Ratio.value[1] >= 80 * Ratio.value[2]
         /\ systemInputs.estimatedDailyUsageWh < 0 => Ratio.kind = "N/A"

\* A system reported as compatible on a positive usage.
C27_CompatibleCase ==
  /\ Rendered
  /\ systemInputs.estimatedDailyUsageWh > 0
  /\ CountKey("SummaryCompatible") = 1

====
